---------------------------- MODULE Spec2Model ----------------------------
(***************************************************************************)
(* A model of vk_rss.py: the conversion of the posts of a vk.com group     *)
(* into the entries of an RSS feed.                                        *)
(*                                                                         *)
(* Conventions.                                                            *)
(*  - A Python dict is a TLA+ record/function; a key is present iff it is  *)
(*    in the DOMAIN.                                                       *)
(*  - A Python value that may be None is a sequence of length at most one: *)
(*    << >> is None and <<v>> is the value v.                              *)
(*  - The text of a post is a sequence of one-character strings, so that   *)
(*    str.split and slicing can be computed; every other string is a TLA+  *)
(*    string, built by concatenation the way str.format builds it.         *)
(*  - A function that can raise returns a record whose field "raised" is   *)
(*    "None" or the name of the exception.                                 *)
(***************************************************************************)
EXTENDS Integers, Sequences, FiniteSets, TLC

VARIABLES
    \* rss_feed_for_group
    posts,        \* what api.wall.get(...)['items'] returns
    reposts,      \* the reposts parameter
    api_error,    \* which API call raises VkApiError: "None", "wall.get", "groups.getById"
    pc,           \* position in rss_feed_for_group
    bound,        \* the local names bound so far (posts, group_name)
    printed,      \* what print() was called with
    idx,          \* index of the next post of the for loop
    fg,           \* the entries of the FeedGenerator, in feed order
    fg_src,       \* for each entry of fg, the index in posts of the post it was made from
    raised,       \* the exception rss_feed_for_group ended with, "None" if none
    \* description_post on its own
    d_post,       \* the argument
    d_pc,
    d_result,
    \* Attachment._photo_rendering on its own
    photo_dict,   \* the argument
    p_pc,
    p_result

vars == <<posts, reposts, api_error, pc, bound, printed, idx, fg, fg_src, raised,
          d_post, d_pc, d_result, photo_dict, p_pc, p_result>>

feed_vars  == <<posts, reposts, api_error, pc, bound, printed, idx, fg, fg_src, raised>>
desc_vars  == <<d_post, d_pc, d_result>>
photo_vars == <<photo_dict, p_pc, p_result>>

---------------------------------------------------------------------------
\* Bounds of the model.
MaxPosts   == 3     \* posts returned by wall.get
MaxAtts    == 2     \* attachments of a post given to description_post
MaxTextLen == 2     \* characters of the text of a post given to description_post

---------------------------------------------------------------------------
\* Python helpers.

\* dict.get(key): None when the key is absent.
Get(d, k) == IF k \in DOMAIN d THEN <<d[k]>> ELSE << >>

\* dict.get(key, default)
GetOr(d, k, default) == IF k \in DOMAIN d THEN d[k] ELSE default

\* Truth value of an optional string: None and '' are false.
Truthy(o) == o # << >> /\ o[1] # ""

\* a or b
Or(a, b) == IF Truthy(a) THEN a ELSE b

\* '{}'.format(o) of an optional string: None is formatted as 'None'.
Format(o) == IF o = << >> THEN "None" ELSE o[1]

\* ''.join(cs) of a sequence of characters
RECURSIVE Str(_)
Str(cs) == IF cs = << >> THEN "" ELSE Head(cs) \o Str(Tail(cs))

\* sep.join(strs)
RECURSIVE Join(_, _)
Join(sep, strs) ==
    IF strs = << >> THEN ""
    ELSE IF Len(strs) = 1 THEN strs[1]
    ELSE strs[1] \o sep \o Join(sep, Tail(strs))

\* cs.split('\n'): the segments between the newlines, empty ones included.
RECURSIVE Split(_)
Split(cs) ==
    IF \A k \in 1..Len(cs) : cs[k] # "\n" THEN <<cs>>
    ELSE LET k == CHOOSE n \in 1..Len(cs) :
                      cs[n] = "\n" /\ \A m \in 1..(n-1) : cs[m] # "\n"
         IN  <<SubSeq(cs, 1, k-1)>> \o Split(SubSeq(cs, k+1, Len(cs)))

\* s * n
RECURSIVE Repeat(_, _)
Repeat(s, n) == IF n = 0 THEN "" ELSE s \o Repeat(s, n-1)

\* '{:.2f}'.format(size / 1024**2) for 0 <= size: the quotient is exact in
\* binary floating point, and the format rounds it half to even.
Format2f(size) ==
    LET unit == 1024 * 1024
        q    == (size * 100) \div unit
        r    == (size * 100) % unit
        h    == IF 2 * r > unit \/ (2 * r = unit /\ q % 2 = 1) THEN q + 1 ELSE q
        frac == h % 100
    IN  ToString(h \div 100) \o "." \o
        (IF frac < 10 THEN "0" ELSE "") \o ToString(frac)

---------------------------------------------------------------------------
\* class Attachment

\* Attachment._image_tag
image_tag(url, description) ==
    "<img src=\"" \o url \o "\"><p>" \o description \o "</p>"

\* The part of an image tag before its first '<p>': tag.split('<p>')[0],
\* for a url that does not itself contain '<p>'.
image_part(url) == "<img src=\"" \o url \o "\">"

\* The resolution keys of a photo, best first.
PhotoKeys == <<"photo_2560", "photo_1280", "photo_807", "photo_604",
               "photo_130", "photo_75">>

\* The same keys, worst first (used by photo_url_worst_first only).
PhotoKeysAscending == <<"photo_75", "photo_130", "photo_604", "photo_807",
                        "photo_1280", "photo_2560">>

\* d.get(keys[1]) or d.get(keys[2]) or ... : the first true operand, or
\* the last operand when none is true.
RECURSIVE OrChain(_, _)
OrChain(d, keys) ==
    IF Len(keys) = 1 THEN Get(d, keys[1])
    ELSE Or(Get(d, keys[1]), OrChain(d, Tail(keys)))

\* A variant of photo_url that tries the keys worst first.
photo_url_worst_first(photo) == OrChain(photo, PhotoKeysAscending)

\* The url of the best quality image of a photo.
photo_url(photo) == OrChain(photo, PhotoKeys)

\* Attachment._photo_rendering
photo_rendering(photo) == image_tag(Format(photo_url(photo)), photo.text)

\* Attachment._video_rendering
video_rendering(video) ==
    image_tag(Format(OrChain(video, <<"photo_800", "photo_640", "photo_320", "photo_130">>)),
              video.title \o " [Video]")

\* Attachment._audio_rendering
audio_rendering(audio) ==
    "<a href=\"" \o audio.url \o "\">" \o audio.artist \o " - " \o audio.title
        \o " [Audio]</a>"

\* Attachment._doc_rendering
doc_rendering(doc) ==
    IF doc.type = 3
    THEN image_tag(doc.url, doc.title)
    ELSE "<a href=\"" \o doc.url \o "\">" \o doc.title \o " - "
             \o Format2f(doc.size) \o "MB [Doc]</a>"

\* Attachment._link_rendering
link_rendering(link) ==
    LET preview     == Get(link, "photo")
        preview_tag == IF preview # << >> /\ DOMAIN preview[1] # {}
                       THEN image_part(Format(photo_url(preview[1])))
                       ELSE ""
    IN  "<a href=\"" \o link.url \o "\">" \o preview_tag \o "<p>" \o link.title
            \o " [Link]</p></a>"

\* Attachment._album_rendering
album_rendering(album) ==
    image_part(Format(photo_url(album.thumb))) \o "<p>" \o album.title \o " [Album]</p>"

\* Attachment._poll_rendering
poll_rendering(poll) ==
    LET answer(ans) == ans.text \o " -- " \o ToString(ans.rate)
        poll_lines  == <<"Pole: " \o poll.question, Repeat("-", 30)>>
                       \o [k \in 1..Len(poll.answers) |-> answer(poll.answers[k])]
                       \o <<Repeat("-", 30), "Number of votes: " \o ToString(poll.votes)>>
    IN  Join("<br>", poll_lines)

\* The keys of func_dispatcher.
func_dispatcher == {"photo", "video", "audio", "doc", "link", "album", "poll"}

\* Attachment.render: the look-up in func_dispatcher raises KeyError for a
\* type that is not one of its keys.
render(attach_type, attach_dict) ==
    IF attach_type \notin func_dispatcher
    THEN [raised |-> "KeyError", value |-> ""]
    ELSE [raised |-> "None",
          value  |-> CASE attach_type = "photo" -> photo_rendering(attach_dict)
                       [] attach_type = "video" -> video_rendering(attach_dict)
                       [] attach_type = "audio" -> audio_rendering(attach_dict)
                       [] attach_type = "doc"   -> doc_rendering(attach_dict)
                       [] attach_type = "link"  -> link_rendering(attach_dict)
                       [] attach_type = "album" -> album_rendering(attach_dict)
                       [] attach_type = "poll"  -> poll_rendering(attach_dict)]

---------------------------------------------------------------------------
\* description_post

\* The keys of not_rendered_elms, in the order the dict is built with, which
\* is the order a dict is iterated in.
not_rendered_types == <<"photos_list", "comments", "note", "page",
                        "market", "market_album", "sticker">>

\* not_rendered_elms as it is initialised: every type maps to 0.
not_rendered_elms == [t \in {not_rendered_types[k] : k \in 1..Len(not_rendered_types)} |-> 0]

\* not_rendered_element_tag
not_rendered_element_tag(element_type) ==
    "<strong>You can find " \o element_type \o " in the post</strong>"

\* A variant of mark that leaves the flag as it is.
mark_forgotten(elms, t) == elms

\* not_rendered_elms[t] = 1
mark(elms, t) == [elms EXCEPT ![t] = 1]

\* The for loop over the attachments of a post, from the state acc of its
\* local variables: attachment_tags, not_rendered_elms, the types given to
\* Attachment.render so far (calls), and the exception that ended the loop.
RECURSIVE attachment_loop(_, _)
attachment_loop(atts, acc) ==
    IF atts = << >> THEN acc
    ELSE LET att      == Head(atts)
             att_type == att.type
         IN  IF att_type \in DOMAIN acc.elms
             THEN attachment_loop(Tail(atts),
                                  [acc EXCEPT !.elms = mark(acc.elms, att_type)])
             ELSE LET r == render(att_type, att[att_type])
                  IN  IF r.raised # "None"
                      THEN [acc EXCEPT !.calls = Append(@, att_type),
                                       !.raised = r.raised]
                      ELSE attachment_loop(Tail(atts),
                                  [acc EXCEPT !.calls = Append(@, att_type),
                                              !.tags = Append(@, r.value)])

\* The tags of the not rendered elements seen, in the order of the dict.
not_rendered_tags(elms) ==
    LET seen == SelectSeq(not_rendered_types, LAMBDA t : elms[t] # 0)
    IN  [k \in 1..Len(seen) |-> not_rendered_element_tag(seen[k])]

\* A variant of post_text without the trailing '<br>'.
post_text_unterminated(text) ==
    Join("<br>", [k \in 1..Len(Split(text)) |-> Str(Split(text)[k])])

\* '<br>'.join(text.split('\n')) + '<br>'
post_text(text) ==
    Join("<br>", [k \in 1..Len(Split(text)) |-> Str(Split(text)[k])]) \o "<br>"

\* description_post: value is the description returned, calls the types of
\* the attachments given to Attachment.render.
description_post(post) ==
    LET loop     == attachment_loop(GetOr(post, "attachments", << >>),
                                    [tags |-> << >>, elms |-> not_rendered_elms,
                                     calls |-> << >>, raised |-> "None"])
        comments == GetOr(post, "comments", [count |-> 0])
        elms     == IF comments.count # 0 THEN mark(loop.elms, "comments")
                    ELSE loop.elms
        attachment_tags == loop.tags \o not_rendered_tags(elms)
    IN  IF loop.raised # "None"
        THEN [raised |-> loop.raised, value |-> "", calls |-> loop.calls]
        ELSE [raised |-> "None",
              value  |-> post_text(post.text) \o Join("<br>", attachment_tags),
              calls  |-> loop.calls]

---------------------------------------------------------------------------
\* Inputs.

\* An attachment of type t: {'type': t, t: payload}
Att(t, payload) == ("type" :> t) @@ (t :> payload)

\* The sequences over S of length at most n.
SeqsUpTo(S, n) == UNION {[1..m -> S] : m \in 0..n}

\* Attachments of the types that are not rendered.
NotRenderedAtts == {Att(not_rendered_types[k], [id |-> 1]) : k \in 1..Len(not_rendered_types)}

\* Attachments of types that are rendered.
RenderedAtts ==
    { Att("photo", [photo_604 |-> "u604", photo_130 |-> "u130", text |-> "cap"]),
      Att("audio", [url |-> "u", artist |-> "ar", title |-> "ti"]),
      Att("doc", [type |-> 1, url |-> "u", title |-> "ti", size |-> 2097152]) }

\* An attachment of a type that func_dispatcher and not_rendered_elms both lack.
UnknownAtts == { Att("graffiti", [id |-> 1]) }

\* The posts description_post is applied to.
DescPosts ==
    LET Texts    == SeqsUpTo({"a", "\n"}, MaxTextLen)
        AttLists == SeqsUpTo(NotRenderedAtts \cup RenderedAtts \cup UnknownAtts, MaxAtts)
        Comments == {[count |-> 0], [count |-> 2]}
    IN       {[text |-> t] : t \in Texts}
        \cup {[text |-> t, attachments |-> a] : t \in Texts, a \in AttLists}
        \cup {[text |-> t, comments |-> c] : t \in Texts, c \in Comments}
        \cup {[text |-> t, attachments |-> a, comments |-> c] :
                  t \in Texts, a \in AttLists, c \in Comments}

\* The photos Attachment._photo_rendering is applied to: any of the six
\* resolution keys, each with an empty or a non-empty url, and a caption.
PhotoDicts ==
    LET Keys == {PhotoKeys[k] : k \in 1..Len(PhotoKeys)}
    IN  {f @@ ("text" :> "cap") :
            f \in UNION {[K -> {"", "a", "b"}] : K \in SUBSET Keys}}

---------------------------------------------------------------------------
\* description_post applied to one post.

FeedIdle == /\ posts = << >> /\ reposts = TRUE /\ api_error = "None"
            /\ pc = "idle" /\ bound = {} /\ printed = << >> /\ idx = 1
            /\ fg = << >> /\ fg_src = << >> /\ raised = "None"

DescIdle == /\ d_post = [text |-> << >>] /\ d_pc = "idle"
            /\ d_result = [raised |-> "None", value |-> "", calls |-> << >>]

PhotoIdle == /\ photo_dict = [text |-> ""] /\ p_pc = "idle" /\ p_result = ""

InitDesc == /\ d_post \in DescPosts
            /\ d_pc = "call"
            /\ d_result = [raised |-> "None", value |-> "", calls |-> << >>]
            /\ FeedIdle /\ PhotoIdle

DescApply == /\ d_pc = "call"
             /\ d_result' = description_post(d_post)
             /\ d_pc' = "return"
             /\ UNCHANGED <<d_post, feed_vars, photo_vars>>

NextDesc == DescApply

SpecDesc == InitDesc /\ [][NextDesc]_vars

---------------------------------------------------------------------------
\* Attachment._photo_rendering applied to one photo.

InitPhoto == /\ photo_dict \in PhotoDicts
             /\ p_pc = "call"
             /\ p_result = ""
             /\ FeedIdle /\ DescIdle

PhotoApply == /\ p_pc = "call"
              /\ p_result' = photo_rendering(photo_dict)
              /\ p_pc' = "return"
              /\ UNCHANGED <<photo_dict, feed_vars, desc_vars>>

NextPhoto == PhotoApply

SpecPhoto == InitPhoto /\ [][NextPhoto]_vars

---------------------------------------------------------------------------
\* post_parsing and rss_feed_for_group

\* api.groups.getById(group_id=group)[0]['name']
group_name == "TestGroup"

\* The owner of the wall: the from_id of the posts of the group itself.
group_id == -1

\* post_parsing: the dictionary an RSS item is created from.
post_parsing(post, name) ==
    LET description == description_post(post)
        title == IF post.text # << >>
                 THEN Str(SubSeq(post.text, 1, IF Len(post.text) < 20 THEN Len(post.text) ELSE 20))
                          \o "..."
                 ELSE name
    IN  IF description.raised # "None"
        THEN [raised |-> description.raised, value |-> << >>]
        ELSE [raised |-> "None",
              value  |-> [title       |-> title,
                          link        |-> "https://vk.com/wall" \o ToString(post.from_id)
                                              \o "_" \o ToString(post.id),
                          description |-> description.value,
                          guid        |-> ToString(post.from_id) \o "_" \o ToString(post.id),
                          pubDate     |-> [timestamp |-> post.date, tz |-> "local"]]]

\* A variant of marked_as_ads that takes no post for an ad.
never_marked(post) == FALSE

\* post['marked_as_ads']
marked_as_ads(post) == post.marked_as_ads

\* post.get('copy_history') is None
not_a_repost(post) == Get(post, "copy_history") = << >>

\* A variant of copy_history_0 that gives the repost wrapper itself.
repost_itself(post) == [raised |-> "None", value |-> post]

\* post['copy_history'][0]: IndexError on an empty list.
copy_history_0(post) ==
    IF post.copy_history = << >>
    THEN [raised |-> "IndexError", value |-> << >>]
    ELSE [raised |-> "None", value |-> post.copy_history[1]]

\* fg.add_entry() followed by the setters of the entry: add_entry is called
\* with feedgen's default order, 'prepend', which inserts the new entry at
\* the beginning of the entries of the feed.
add_entry(entries, entry) == <<entry>> \o entries

\* The contents a post can have.
Contents ==
    { [text |-> << >>],
      [text |-> <<"a", "\n", "b">>,
       attachments |-> <<Att("sticker", [id |-> 1])>>, comments |-> [count |-> 2]],
      [text |-> <<"c">>, attachments |-> <<Att("graffiti", [id |-> 1])>>] }

\* The posts a repost can be made from: two posts of another wall, and the
\* first post of the group's own wall.
Originals ==
    { [text |-> <<"o">>, from_id |-> 100, id |-> 5, date |-> 50],
      [text |-> <<"p">>, from_id |-> 100, id |-> 6, date |-> 60,
       attachments |-> <<Att("graffiti", [id |-> 1])>>],
      [text |-> << >>, from_id |-> group_id, id |-> 1, date |-> 1] }

\* What wall.get can return for one post, but for its id and date.
Bodies ==
         {c @@ [marked_as_ads |-> FALSE] : c \in Contents}
    \cup {[text |-> << >>, marked_as_ads |-> TRUE]}
    \cup {[text |-> <<"r">>, marked_as_ads |-> FALSE, copy_history |-> h] :
              h \in {<< >>} \cup {<<o>> : o \in Originals}}
    \cup {[text |-> <<"r">>, marked_as_ads |-> TRUE,
           copy_history |-> <<CHOOSE o \in Originals : o.id = 5>>]}

\* The lists of posts wall.get can return: the posts of one wall have
\* distinct ids, and the newest post, with the greatest id, comes first.
WallPosts ==
    UNION { { [k \in 1..n |-> f[k] @@ [from_id |-> group_id, id |-> n + 1 - k,
                                       date |-> n + 1 - k]] :
                  f \in [1..n -> Bodies] } : n \in 0..MaxPosts }

Init == /\ posts \in WallPosts
        /\ reposts \in BOOLEAN
        /\ api_error \in {"None", "wall.get", "groups.getById"}
        /\ pc = "fetch"
        /\ bound = {}
        /\ printed = << >>
        /\ idx = 1
        /\ fg = << >>
        /\ fg_src = << >>
        /\ raised = "None"
        /\ DescIdle /\ PhotoIdle

\* The try statement: posts and group_name are bound by the calls that
\* return; a VkApiError is printed and the function goes on.
Fetch ==
    /\ pc = "fetch"
    /\ \/ /\ api_error = "None"
          /\ bound' = {"posts", "group_name"}
          /\ printed' = printed
       \/ /\ api_error = "wall.get"
          /\ bound' = {}
          /\ printed' = Append(printed, "VkApiError")
       \/ /\ api_error = "groups.getById"
          /\ bound' = {"posts"}
          /\ printed' = Append(printed, "VkApiError")
    /\ pc' = "generate"
    /\ UNCHANGED <<posts, reposts, api_error, idx, fg, fg_src, raised, desc_vars, photo_vars>>

\* fg = FeedGenerator(); fg.title(group_name); ...: reading a local name
\* that was never bound raises UnboundLocalError.
Generate ==
    /\ pc = "generate"
    /\ \/ /\ "group_name" \notin bound
          /\ raised' = "UnboundLocalError"
          /\ pc' = "raised"
       \/ /\ "group_name" \in bound
          /\ raised' = raised
          /\ pc' = "loop"
    /\ UNCHANGED <<posts, reposts, api_error, bound, printed, idx, fg, fg_src,
                   desc_vars, photo_vars>>

\* One iteration of the for loop, on a post that is not parsed.
Skip ==
    /\ pc = "loop"
    /\ idx <= Len(posts)
    /\ \/ marked_as_ads(posts[idx])
       \/ /\ ~marked_as_ads(posts[idx])
          /\ ~not_a_repost(posts[idx])
          /\ ~reposts
    /\ idx' = idx + 1
    /\ UNCHANGED <<posts, reposts, api_error, pc, bound, printed, fg, fg_src, raised,
                   desc_vars, photo_vars>>

\* One iteration of the for loop, on a post that is parsed: the post itself,
\* or the post the repost is made from.
Parse ==
    /\ pc = "loop"
    /\ idx <= Len(posts)
    /\ ~marked_as_ads(posts[idx])
    /\ not_a_repost(posts[idx]) \/ reposts
    /\ LET post      == posts[idx]
           arg       == IF not_a_repost(post) THEN [raised |-> "None", value |-> post]
                        ELSE copy_history_0(post)
           post_data == IF arg.raised # "None" THEN arg
                        ELSE post_parsing(arg.value, group_name)
       IN  \/ /\ post_data.raised # "None"
              /\ raised' = post_data.raised
              /\ pc' = "raised"
              /\ UNCHANGED <<idx, fg, fg_src>>
           \/ /\ post_data.raised = "None"
              /\ fg' = add_entry(fg, post_data.value)
              /\ fg_src' = add_entry(fg_src, idx)
              /\ idx' = idx + 1
              /\ UNCHANGED <<pc, raised>>
    /\ UNCHANGED <<posts, reposts, api_error, bound, printed, desc_vars, photo_vars>>

\* return fg
Return ==
    /\ pc = "loop"
    /\ idx > Len(posts)
    /\ pc' = "done"
    /\ UNCHANGED <<posts, reposts, api_error, bound, printed, idx, fg, fg_src, raised,
                   desc_vars, photo_vars>>

Next == Fetch \/ Generate \/ Skip \/ Parse \/ Return

Spec == Init /\ [][Next]_vars

---------------------------------------------------------------------------
\* Properties.

\* rss_feed_for_group has ended, by return or by an exception.
Terminated == pc \in {"done", "raised"}

\* The positions in the feed of the entries made from posts[j].
EntriesOf(j) == {k \in 1..Len(fg_src) : fg_src[k] = j}

\* posts[j] is a repost wrapper: it has a copy_history with a first element.
IsWrapper(j) == "copy_history" \in DOMAIN posts[j] /\ posts[j].copy_history # << >>

\* posts[j] has no copy_history, or an empty one.
NoHistory(j) == "copy_history" \notin DOMAIN posts[j] \/ posts[j].copy_history = << >>

\* The types of the attachments of a post.
AttTypes(post) ==
    LET atts == GetOr(post, "attachments", << >>)
    IN  {atts[k].type : k \in 1..Len(atts)}

\* The types that are neither rendered nor acknowledged.
UnknownTypes(post) ==
    AttTypes(post) \ (func_dispatcher \cup {not_rendered_types[k] : k \in 1..Len(not_rendered_types)})

\* The text with every newline replaced by <br>, character by character.
RECURSIVE ReplaceNewlines(_)
ReplaceNewlines(cs) ==
    IF cs = << >> THEN ""
    ELSE (IF Head(cs) = "\n" THEN "<br>" ELSE Head(cs)) \o ReplaceNewlines(Tail(cs))

\* C1: a post marked as ads never produces a feed entry, repost or not,
\* whatever the reposts flag: every entry of the feed was made from a post
\* whose marked_as_ads is false.
C1_AdsNeverInFeed ==
    \A k \in 1..Len(fg) : ~posts[fg_src[k]].marked_as_ads

\* C1 witness: the function returned a non-empty feed, with reposts wanted,
\* for posts among which are an ad that is a repost and an ad that is not.
C1_Witness ==
    /\ pc = "done" /\ reposts /\ fg # << >>
    /\ \E i, j \in 1..Len(posts) :
          /\ posts[i].marked_as_ads /\ IsWrapper(i)
          /\ posts[j].marked_as_ads /\ "copy_history" \notin DOMAIN posts[j]

\* C2: for a non-ad repost wrapper of the original post P, with reposts true
\* every entry made from the wrapper has guid "{P.from_id}_{P.id}" and link
\* "https://vk.com/wall{P.from_id}_{P.id}", whatever the wrapper's own ids,
\* and a feed that is returned holds exactly one such entry; with reposts
\* false the wrapper has no entry at all.
C2_RepostResolved ==
    \A j \in 1..Len(posts) :
        (~posts[j].marked_as_ads /\ IsWrapper(j)) =>
            LET P == posts[j].copy_history[1]
            IN  /\ ~reposts => EntriesOf(j) = {}
                /\ reposts =>
                     /\ \A k \in EntriesOf(j) :
                           /\ fg[k].guid = ToString(P.from_id) \o "_" \o ToString(P.id)
                           /\ fg[k].link = "https://vk.com/wall" \o ToString(P.from_id)
                                               \o "_" \o ToString(P.id)
                           /\ (P.from_id = 100 /\ P.id = 5) =>
                                 /\ fg[k].guid = "100_5"
                                 /\ fg[k].link = "https://vk.com/wall100_5"
                     /\ pc = "done" => Cardinality(EntriesOf(j)) = 1

\* C2 witness: a feed was returned with the entry of a wrapper, whose own ids
\* are not those of the original post (100, 5).
C2_Witness ==
    /\ pc = "done" /\ reposts
    /\ \E j \in 1..Len(posts) :
          /\ ~posts[j].marked_as_ads /\ IsWrapper(j)
          /\ posts[j].from_id # 100 /\ posts[j].id # 5
          /\ posts[j].copy_history[1].from_id = 100 /\ posts[j].copy_history[1].id = 5
          /\ \E k \in EntriesOf(j) : fg[k].guid = "100_5"

\* C3: the entries of the feed are in the order of the posts they were made
\* from, each post has at most one entry, and the feed is no longer than the
\* list of posts.
C3_InputOrderPreserved ==
    /\ \A k, l \in 1..Len(fg) : k < l => fg_src[k] < fg_src[l]
    /\ \A j \in 1..Len(posts) : Cardinality(EntriesOf(j)) <= 1
    /\ Len(fg) <= Len(posts)

\* posts[j] is parsed when the loop reaches it.
Eligible(j) ==
    /\ ~posts[j].marked_as_ads
    /\ "copy_history" \notin DOMAIN posts[j] \/ reposts

\* The post that is parsed for posts[j].
Resolved(j) == IF IsWrapper(j) THEN posts[j].copy_history[1] ELSE posts[j]

\* C4: an attachment of an unknown type affects only its own post: when the
\* function ends, that post has no entry and every other eligible post,
\* before or after it, has its entry.  (Stated for lists of posts in which
\* no copy_history is empty, and for API calls that succeed.)
C4_UnknownKindSkipsOnlyThatPost ==
    (/\ api_error = "None"
     /\ Terminated
     /\ \A j \in 1..Len(posts) : "copy_history" \in DOMAIN posts[j] => IsWrapper(j))
    => \A j \in 1..Len(posts) :
          Eligible(j) => (EntriesOf(j) # {} <=> UnknownTypes(Resolved(j)) = {})

\* C5: when wall.get or groups.getById raises VkApiError, rss_feed_for_group
\* ends with that same error and builds no feed.
C5_ApiErrorPropagates ==
    api_error # "None" =>
        /\ pc \notin {"loop", "done"}
        /\ Terminated => raised = "VkApiError"

\* C6: no two entries of a feed have the same guid.
C6_GuidsUnique ==
    \A k, l \in 1..Len(fg) : k # l => fg[k].guid # fg[l].guid

\* C10: a non-ad post whose copy_history is absent or empty is parsed from
\* its own fields: it does not end the function with an exception, and once
\* the loop is past it, it has exactly one entry, with its own guid and link.
C10_NoHistoryIsNotARepost ==
    \A j \in 1..Len(posts) :
        (~posts[j].marked_as_ads /\ NoHistory(j)) =>
            /\ ~(pc = "raised" /\ idx = j /\ "group_name" \in bound)
            /\ (pc \in {"loop", "done"} /\ idx > j) =>
                  /\ Cardinality(EntriesOf(j)) = 1
                  /\ \A k \in EntriesOf(j) :
                        /\ fg[k].guid = ToString(posts[j].from_id) \o "_" \o ToString(posts[j].id)
                        /\ fg[k].link = "https://vk.com/wall" \o ToString(posts[j].from_id)
                                            \o "_" \o ToString(posts[j].id)

\* The notices of the types in present, in the fixed order of the types.
Notices(present) ==
    LET seen == SelectSeq(not_rendered_types, LAMBDA t : t \in present)
    IN  [k \in 1..Len(seen) |-> "<strong>You can find " \o seen[k] \o " in the post</strong>"]

\* The post has no attachments: the field is absent or an empty list.
ZeroAttachments(post) == GetOr(post, "attachments", << >>) = << >>

\* The comment count of the post is not zero.
HasComments(post) == "comments" \in DOMAIN post /\ post.comments.count # 0

\* C7 as stated: for a post with zero attachments, description_post returns
\* the text with each newline replaced by <br>, plus one <br>, and nothing
\* after it.
C7_TextAloneForZeroAttachments ==
    (d_pc = "return" /\ ZeroAttachments(d_post)) =>
        /\ d_result.raised = "None"
        /\ d_result.value = ReplaceNewlines(d_post.text) \o "<br>"

\* C7 as amended: for a post with zero attachments and no comments (the
\* comments field absent, or its count zero), description_post returns the
\* text with each newline replaced by <br>, plus one <br>, and nothing after it.
C7_TextAloneForZeroAttachmentsNoComments ==
    (d_pc = "return" /\ ZeroAttachments(d_post) /\ ~HasComments(d_post)) =>
        /\ d_result.raised = "None"
        /\ d_result.value = ReplaceNewlines(d_post.text) \o "<br>"

\* C7 witness: description_post returned for a post with an empty list of
\* attachments, a comment count of zero and a text with a newline.
C7_Witness ==
    /\ d_pc = "return"
    /\ d_post = [text |-> <<"a", "\n">>, attachments |-> << >>, comments |-> [count |-> 0]]
    /\ d_result.value = "a<br><br>"

\* All the attachments of the post are of types that are not rendered.
OnlyNotRendered(post) ==
    AttTypes(post) \subseteq {not_rendered_types[k] : k \in 1..Len(not_rendered_types)}

\* C8 as stated: for a post whose attachments are all of not rendered types,
\* the description is the text followed by one notice for each type among
\* the attachments and none for any other type, in the fixed order of the
\* types, and nothing is given to Attachment.render.
C8_OneNoticePerKindPresent ==
    (d_pc = "return" /\ OnlyNotRendered(d_post)) =>
        /\ d_result.raised = "None"
        /\ d_result.calls = << >>
        /\ d_result.value = ReplaceNewlines(d_post.text) \o "<br>"
                                \o Join("<br>", Notices(AttTypes(d_post)))

\* C8 as amended: as stated, but for the type comments, whose notice is
\* there when an attachment of type comments is or when the comment count of
\* the post is not zero.
C8_OneNoticePerKindPresentOrCommented ==
    (d_pc = "return" /\ OnlyNotRendered(d_post)) =>
        /\ d_result.raised = "None"
        /\ d_result.calls = << >>
        /\ d_result.value = ReplaceNewlines(d_post.text) \o "<br>"
              \o Join("<br>", Notices(AttTypes(d_post) \cup
                                      (IF HasComments(d_post) THEN {"comments"} ELSE {})))

\* C8 witness: description_post returned for a post with two attachments of
\* the same not rendered type, and for one with two types in the reverse of
\* their fixed order.
C8_Witness ==
    /\ d_pc = "return"
    /\ \/ /\ d_post = [text |-> << >>, attachments |->
                          <<Att("sticker", [id |-> 1]), Att("sticker", [id |-> 1])>>]
          /\ d_result.value = "<br><strong>You can find sticker in the post</strong>"
       \/ /\ d_post = [text |-> << >>, attachments |->
                          <<Att("sticker", [id |-> 1]), Att("note", [id |-> 1])>>]
          /\ d_result.value = "<br><strong>You can find note in the post</strong>"
                 \o "<br><strong>You can find sticker in the post</strong>"

\* The resolution keys of the photo that satisfy ok, as positions in PhotoKeys.
KeysWith(photo, ok(_)) ==
    {k \in 1..Len(PhotoKeys) : PhotoKeys[k] \in DOMAIN photo /\ ok(photo[PhotoKeys[k]])}

\* The least number of a non-empty set of numbers.
Least(S) == CHOOSE k \in S : \A m \in S : k <= m

\* C9 as stated: for a photo with at least one resolution key, the rendering
\* uses the url under the best resolution key present.
C9_BestPresentKey ==
    LET present == KeysWith(photo_dict, LAMBDA v : TRUE)
    IN  (p_pc = "return" /\ present # {}) =>
            p_result = "<img src=\"" \o photo_dict[PhotoKeys[Least(present)]]
                           \o "\"><p>" \o photo_dict.text \o "</p>"

\* C9 as amended: for a photo with at least one resolution key whose url is
\* not empty, the rendering uses the url under the best resolution key
\* whose url is not empty.
C9_BestNonEmptyKey ==
    LET usable == KeysWith(photo_dict, LAMBDA v : v # "")
    IN  (p_pc = "return" /\ usable # {}) =>
            p_result = "<img src=\"" \o photo_dict[PhotoKeys[Least(usable)]]
                           \o "\"><p>" \o photo_dict.text \o "</p>"

\* C9 witness: the rendering of a photo whose best key present is not its
\* first key, and whose worse keys hold other urls.
C9_Witness ==
    /\ p_pc = "return"
    /\ photo_dict = [photo_807 |-> "a", photo_130 |-> "b", photo_75 |-> "a", text |-> "cap"]
    /\ p_result = "<img src=\"a\"><p>cap</p>"

=============================================================================
